---- MODULE Spec2Model ----
(***************************************************************************)
(* Model of the WTA scrapers (scrapers/utils.py, scrapers/wta.py,          *)
(* scrapers/wta_reports.py): the session probe, the hike-listing crawl,    *)
(* the trail-detail crawl, the trip-report crawl with its cutoff gate and  *)
(* content-wait retry, and the CSV hand-off.                               *)
(*                                                                         *)
(* The web site is the environment: what a navigation, a content wait or   *)
(* a page's DOM yields is drawn nondeterministically when the code asks.   *)
(* Instants are integer ticks, TicksPerDay ticks to a day; a date string   *)
(* parses to the midnight tick of its day.                                 *)
(***************************************************************************)
EXTENDS Integers, Sequences, FiniteSets, TLC

(***************************************************************************)
(* Bounds of the model                                                     *)
(***************************************************************************)
\* rows of the hikes CSV handed to --hikes-csv
MaxCsvRows == 3
\* pages the site serves in one run (listing pages or report pages)
MaxPagesServed == 1
\* report items or listing links the site serves in one run
MaxItemsServed == 2
\* items or links on one page
MaxPerPage == 2
\* explicit max_pages arguments tried besides the default
MaxPagesArg == 1
\* report pages a trail of the deep site has after its first
DeepPages == 21

(***************************************************************************)
(* Program constants                                                       *)
(***************************************************************************)
DEFAULT_DAYS == 90
DefaultMaxPages == 20
\* variant: a third attempt
WaitAttempts_three == 2 + 1
WaitAttempts == 2
TicksPerDay == 2

\* None of a datetime | None
NoDate == 0 - 1
\* None / "" of a string-valued field
Null == "null"

(***************************************************************************)
(* URLs: a scheme-and-host flag and the path segments.  An href without    *)
(* the flag is site-relative.  NoURL is None (falsy).                      *)
(***************************************************************************)
NoURL == [abs |-> FALSE, path |-> <<>>]
URL(p) == [abs |-> TRUE, path |-> p]
Href(p) == [abs |-> FALSE, path |-> p]

WTA_HIKE_LIST_URL == URL(<<"go-hiking", "hikes?sort=rating">>)
LOGIN_URL == URL(<<"login?came_from=", "backpack">>)
probe_url == URL(<<"@@user-account">>)
TrailA == URL(<<"go-hiking", "hikes", "mt-si">>)
TrailB == URL(<<"go-hiking", "hikes", "rattlesnake-ledge">>)

\* "login" in page.url, at the granularity of the leading word of a segment
HasLogin(seg) == seg \in {"login", "login?came_from="}
LoginInUrl(u) == \E k \in 1..Len(u.path) : HasLogin(u.path[k])

\* "/go-hiking/hikes/" in href: the two segments followed by a further one
IsHikeHref(h) ==
    \E k \in 1..Len(h.path) :
        /\ k + 2 <= Len(h.path)
        /\ h.path[k] = "go-hiking"
        /\ h.path[k + 1] = "hikes"

\* href if href.startswith("http") else f"https://www.wta.org{href}"
FullUrl(h) == IF h.abs THEN h ELSE URL(h.path)

(***************************************************************************)
(* Report titles and dates.  A title is a sequence of tokens: words, the   *)
(* em dash and date texts.  A date text has the format it is written in    *)
(* and its day number.                                                     *)
(***************************************************************************)
Word == [fmt |-> "word", day |-> 0]
Dash == [fmt |-> "dash", day |-> 0]
DateTok(f, d) == [fmt |-> f, day |-> d]

\* the strptime formats tried, in order: "%B %d, %Y", "%b. %d, %Y",
\* "%b %d, %Y", "%Y-%m-%d"
DateFormats == <<"B", "b.", "b", "iso">>

FirstDash(t) ==
    IF \E k \in 1..Len(t) : t[k] = Dash
    THEN CHOOSE k \in 1..Len(t) : t[k] = Dash /\ \A j \in 1..(k - 1) : t[j] # Dash
    ELSE 0

\* title_text.split("—", 1)[1].strip() if "—" in title_text else title_text.strip()
_parse_report_date(title_text) ==
    IF FirstDash(title_text) > 0
    THEN SubSeq(title_text, FirstDash(title_text) + 1, Len(title_text))
    ELSE title_text

\* strptime(date_str, fmt) succeeds when the whole string is one date in fmt
Strptime(date_str, fmt) ==
    IF Len(date_str) = 1 /\ date_str[1].fmt = fmt
    THEN date_str[1].day * TicksPerDay
    ELSE NoDate

RECURSIVE TryFormats(_, _)
TryFormats(date_str, k) ==
    IF k > Len(DateFormats) THEN NoDate
    ELSE IF Strptime(date_str, DateFormats[k]) # NoDate
         THEN Strptime(date_str, DateFormats[k])
         ELSE TryFormats(date_str, k + 1)

_parse_date_dt(date_str) == TryFormats(date_str, 1)

\* variant: the window is always the default one
_cutoff_date_default(now_, days_) == now_ - DEFAULT_DAYS * TicksPerDay

\* datetime.now(timezone.utc) - timedelta(days=days)
_cutoff_date(now_, days_) == now_ - days_ * TicksPerDay

\* variants of the comparison: reversed, and without the None test
BeforeCutoff_reversed(report_dt, cutoff_) == report_dt # NoDate /\ report_dt > cutoff_
BeforeCutoff_nonecheck(report_dt, cutoff_) == report_dt < cutoff_

\* if report_dt and report_dt < cutoff
BeforeCutoff(report_dt, cutoff_) == report_dt # NoDate /\ report_dt < cutoff_


(***************************************************************************)
(* What the site can serve                                                 *)
(***************************************************************************)
\* day of the run, and the --days override tried besides the default
NowDay == 100
OverrideDays == 30

\* a trip-report element: its title link text and its content blocks
\* (Null: the block is missing from the element)
ReportEl(t, a, c, x) == [title |-> t, author |-> a, conditions |-> c, text |-> x]

ReportElements ==
    { ReportEl(<<Word, Dash, DateTok("b.", 9)>>, "hiker", "Beware of: snow", "icy"),
      ReportEl(<<Word, Dash, DateTok("B", 10)>>, Null, Null, Null),
      ReportEl(<<Word, Dash, DateTok("iso", 75)>>, "hiker", Null, "dry"),
      ReportEl(<<Word, Dash, DateTok("junk", 9)>>, Null, "Beware of: mud", Null),
      ReportEl(<<DateTok("b", 9)>>, "hiker", Null, Null) }

\* href attributes of the a.listitem-title links of a listing page
ListHrefs ==
    { NoURL,
      Href(TrailA.path),
      TrailA,
      Href(TrailB.path),
      Href(<<"go-hiking", "trip-reports", "mt-si">>) }

\* href attribute of the "next" link: missing attribute, relative, absolute
NextHrefs == { NoURL, Href(<<"go-hiking", "hikes?b_start">>), URL(<<"go-hiking", "hikes?b_start">>) }

\* the deep site: every report page of a trail holds this one recent report,
\* and a trail has at most DeepPages pages after its first
DeepElement == ReportEl(<<Word, Dash, DateTok("iso", 75)>>, "hiker", Null, "dry")
TwoTrails == [given |-> TRUE, cells |-> <<TrailA, TrailB>>]

\* a trail detail page: the heading text (Null: no h1.documentFirstHeading)
DetailPages == { Null, "Mt Si" }

\* sequences over S of length at most n
RECURSIVE SeqsUpTo(_, _)
SeqsUpTo(S, n) ==
    IF n = 0 THEN { <<>> }
    ELSE SeqsUpTo(S, n - 1) \cup
         { Append(q, e) : q \in { r \in SeqsUpTo(S, n - 1) : Len(r) = n - 1 }, e \in S }

Min(a, b) == IF a < b THEN a ELSE b

\* the hikes CSV: row k has wta_url TrailA, a blank cell, or TrailB
Blank == NoURL
CsvRow(k) == IF k % 3 = 1 THEN TrailA ELSE IF k % 3 = 2 THEN Blank ELSE TrailB
CsvFile(n) == [given |-> TRUE, cells |-> [k \in 1..n |-> CsvRow(k)]]
NoCsv == [given |-> FALSE, cells |-> <<>>]

(***************************************************************************)
(* CSV seed loading                                                        *)
(***************************************************************************)
RECURSIVE load_trail_urls_from_csv(_)
load_trail_urls_from_csv(cells) ==
    IF cells = <<>> THEN <<>>
    ELSE IF Head(cells) # Blank
         THEN <<Head(cells)>> \o load_trail_urls_from_csv(Tail(cells))
         ELSE load_trail_urls_from_csv(Tail(cells))

(***************************************************************************)
(* Records                                                                 *)
(***************************************************************************)
\* raw.replace("Beware of:", "").strip()
StripBeware(raw) ==
    IF raw = "Beware of: snow" THEN "snow"
    ELSE IF raw = "Beware of: mud" THEN "mud"
    ELSE raw

OrEmpty(v) == IF v = Null THEN "" ELSE v

\* the dict appended at wta_reports.py lines 141-150
ReportRow(url, el, ts) ==
    [ trail_url    |-> url,
      report_date  |-> _parse_report_date(el.title),
      author       |-> OrEmpty(el.author),
      conditions   |-> StripBeware(OrEmpty(el.conditions)),
      snow_level   |-> "",
      text_summary |-> OrEmpty(el.text),
      source       |-> "wta",
      scraped_at   |-> ts ]

\* the dict built at wta.py lines 38-54, with the heading filled in; the
\* other selectors are modelled as matching nothing
HikeRow(url, heading, ts) ==
    [ trail_name        |-> heading,
      location          |-> Null,
      distance_miles    |-> Null,
      elevation_gain_ft |-> Null,
      highest_point_ft  |-> Null,
      difficulty        |-> Null,
      trail_type        |-> Null,
      required_pass     |-> Null,
      dogs_allowed      |-> FALSE,
      kid_friendly      |-> FALSE,
      season_window     |-> Null,
      highlight         |-> Null,
      wta_url           |-> url,
      source            |-> "wta",
      scraped_at        |-> ts ]

\* the cutoff gate of one report element (lines 113-119): TRUE when dropped
Dropped(el, cutoff_) == BeforeCutoff(_parse_date_dt(_parse_report_date(el.title)), cutoff_)

\* variant: the redirect is not looked at
verify_auth_always(landed) == TRUE

\* verify_auth's verdict on the post-navigation URL
verify_auth(landed) == ~LoginInUrl(landed)

\* variant: the link is appended without the membership test
AddLink_nodedup(urls_, href) ==
    IF href # NoURL /\ IsHikeHref(href)
    THEN Append(urls_, FullUrl(href))
    ELSE urls_

\* the listing loop's append of one link (wta.py lines 146-150)
AddLink(urls_, href) ==
    IF href # NoURL /\ IsHikeHref(href) /\ ~(\E k \in 1..Len(urls_) : urls_[k] = FullUrl(href))
    THEN Append(urls_, FullUrl(href))
    ELSE urls_

RECURSIVE AddLinks(_, _)
AddLinks(urls_, hrefs) ==
    IF hrefs = <<>> THEN urls_
    ELSE AddLinks(AddLink(urls_, Head(hrefs)), Tail(hrefs))

\* the next-page URL (wta.py lines 153-160); present: a[title='Next'] matched
NextListUrl(present, next_href) ==
    IF present
    THEN IF next_href # NoURL THEN FullUrl(next_href) ELSE NoURL
    ELSE NoURL

\* while current_url and page_num < max_pages
ListLoopTest(current_url_, page_num_, max_pages_) ==
    current_url_ # NoURL /\ page_num_ < max_pages_


(***************************************************************************)
(* State                                                                   *)
(***************************************************************************)
VARIABLES
    prog,          \* which scraper runs: "wta" or "wta_reports"
    trail_url,     \* --trail-url, NoURL when not given
    hikes_csv,     \* --hikes-csv, NoCsv when not given
    days,          \* --days
    now,           \* the instant the run starts
    max_pages,     \* get_hike_urls' max_pages
    site,          \* the site the run faces: "any" (a few pages of any content)
                   \* or "deep" (trails with many one-report pages)
    pc,            \* position of the run
    context,       \* browser context: "none", "stored", "bare", "closed"
    valid,         \* verdict of verify_auth: "unknown", "valid", "expired"
    probe_landed,  \* page.url after the probe navigation, NoURL before it
    cutoff,        \* run's cutoff instant
    seeds,         \* trail_urls (wta_reports.run) / hike_urls (wta.run)
    i,             \* index of the seed being processed, from 1
    all_rows,      \* all_rows (wta_reports.run) / rows (wta.run)
    errors,        \* the "ERROR scraping <url>: <exc>" lines printed, in order,
                   \* each with the seed index and page it came from
    urls,          \* get_hike_urls: urls
    current_url,   \* get_hike_urls: current_url
    seen,          \* the hrefs of the a.listitem-title links of the listing pages
                   \* read so far, in order
    page_num,      \* page_num of get_hike_urls / scrape_reports_for_trail
    page_url,      \* the URL of the last page.goto
    rows,          \* scrape_reports_for_trail: rows
    attempt,       \* scrape_reports_for_trail: attempt of the wait loop
    loaded,        \* scrape_reports_for_trail: loaded
    past_cutoff,   \* scrape_reports_for_trail: past_cutoff
    items,         \* the #trip-reports .item elements of the loaded page
    idx,           \* number of elements of the page already processed
    raw_dir,       \* data/raw exists
    csv_file,      \* the output file: [exists, rows]
    notice,        \* "No rows to write" was printed
    navs,          \* navigations started, by kind of page
    fetched,       \* per seed: pages navigated to for that seed
    waits,         \* wait_for_selector calls on the current page
    long_delays,   \* polite_delay(3.0, 6.0) calls on the current page
    extra_pause,   \* the last pagination_delay added its extra pause
    page_base,     \* Len(rows) when the current page's element loop began
    saw_old,       \* seeds on which an element before the cutoff was found
    kept,          \* per seed: every row appended to rows during its traversal,
                   \* with the page_num it was found on
    paced,         \* a pacing sleep has been performed since the last navigation
    pages_served,  \* listing and report pages the site "any" has served
    items_served   \* elements and links the site "any" has served

inputs == <<prog, trail_url, hikes_csv, days, now, max_pages, site>>
session == <<context, valid, probe_landed>>
aggregate == <<seeds, i, all_rows, errors>>
listing == <<urls, current_url, seen>>
locals == <<rows, attempt, loaded, past_cutoff, items, idx>>
files == <<raw_dir, csv_file, notice>>
history == <<navs, fetched, waits, long_delays, extra_pause, page_base, saw_old, kept,
             paced>>
served == <<pages_served, items_served>>

vars == <<inputs, pc, session, cutoff, aggregate, listing, page_num, page_url,
          locals, files, history, served>>

NoFile == [exists |-> FALSE, rows |-> <<>>]
NavKinds == {"probe", "listing", "detail", "trail", "report"}
EntityKinds == NavKinds \ {"probe"}

Zeros(n) == [k \in 1..n |-> 0]
Empties(n) == [k \in 1..n |-> <<>>]

MaxPagesArgs == (1..MaxPagesArg) \cup {DefaultMaxPages}

Init ==
    /\ prog \in {"wta", "wta_reports"}
    /\ \/ /\ prog = "wta"
          /\ trail_url \in {NoURL, TrailA}
          /\ hikes_csv = NoCsv
          /\ days = DEFAULT_DAYS
          /\ max_pages \in MaxPagesArgs
          /\ now = NowDay * TicksPerDay + 1
          /\ site = "any"
       \/ /\ prog = "wta_reports"
          /\ \/ /\ site = "any"
                /\ \/ trail_url = TrailA /\ hikes_csv = NoCsv
                   \/ trail_url = NoURL /\ hikes_csv \in {CsvFile(n) : n \in 0..MaxCsvRows}
                   \/ trail_url = NoURL /\ hikes_csv = NoCsv
                /\ \/ /\ days = DEFAULT_DAYS
                      /\ now \in {NowDay * TicksPerDay, NowDay * TicksPerDay + 1}
                   \/ days = OverrideDays /\ now = NowDay * TicksPerDay + 1
             \/ /\ site = "deep"
                /\ trail_url = NoURL /\ hikes_csv = TwoTrails
                /\ days = DEFAULT_DAYS /\ now = NowDay * TicksPerDay + 1
          \* wta_reports has no page cap; max_pages is the cap the run is held against
          /\ max_pages = MaxPagesArg
    /\ pc = "start"
    /\ context = "none"
    /\ valid = "unknown"
    /\ probe_landed = NoURL
    /\ cutoff = 0
    /\ seeds = <<>>
    /\ i = 1
    /\ all_rows = <<>>
    /\ errors = <<>>
    /\ urls = <<>>
    /\ seen = <<>>
    /\ current_url = NoURL
    /\ page_num = 0
    /\ page_url = NoURL
    /\ rows = <<>>
    /\ attempt = 0
    /\ loaded = FALSE
    /\ past_cutoff = FALSE
    /\ items = <<>>
    /\ idx = 0
    /\ raw_dir = FALSE
    /\ csv_file = NoFile
    /\ notice = FALSE
    /\ navs = [k \in NavKinds |-> 0]
    /\ fetched = <<>>
    /\ waits = 0
    /\ long_delays = 0
    /\ extra_pause = FALSE
    /\ page_base = 0
    /\ saw_old = {}
    /\ kept = <<>>
    /\ paced = FALSE
    /\ pages_served = 0
    /\ items_served = 0

\* scraped_at(): the clock is not advanced during a run
scraped_at == now

Nav(kind) == navs' = [navs EXCEPT ![kind] = @ + 1] /\ paced' = FALSE
Fetch(k) == fetched' = [fetched EXCEPT ![k] = @ + 1]

SetSeeds(s) ==
    /\ seeds' = s
    /\ fetched' = Zeros(Len(s))
    /\ kept' = Empties(Len(s))

(***************************************************************************)
(* run(): options, context, session probe                                  *)
(***************************************************************************)
\* wta_reports.run lines 194-204
ReportsStart ==
    /\ pc = "start" /\ prog = "wta_reports"
    /\ cutoff' = _cutoff_date(now, days)
    /\ IF trail_url # NoURL
       THEN SetSeeds(<<trail_url>>) /\ pc' = "new_context"
       ELSE IF hikes_csv.given
            THEN SetSeeds(load_trail_urls_from_csv(hikes_csv.cells)) /\ pc' = "new_context"
            ELSE SetSeeds(<<>>) /\ pc' = "no_seeds"
    /\ UNCHANGED <<inputs, session, i, all_rows, errors, listing, page_num, page_url,
                   locals, files, navs, waits, long_delays,
                   extra_pause, page_base, saw_old, paced,
                   served>>

\* wta.run line 173
WtaStart ==
    /\ pc = "start" /\ prog = "wta"
    /\ pc' = "new_context"
    /\ UNCHANGED <<inputs, session, cutoff, aggregate, listing, page_num, page_url,
                   locals, files, history, served>>

\* what run() does once it has its page: verify_auth(page) first; the
\* variant goes straight to the seeds
AfterNewContext_noprobe == "seed_loop"
AfterNewContext == "probe"

\* utils.new_context: attaches the stored session when AUTH_FILE exists
NewContext ==
    /\ pc = "new_context"
    /\ \E auth_file_exists \in BOOLEAN :
           context' = IF auth_file_exists THEN "stored" ELSE "bare"
    /\ pc' = AfterNewContext
    /\ UNCHANGED <<inputs, valid, probe_landed, cutoff, aggregate, listing, page_num,
                   page_url, locals, files, history, served>>

\* utils.verify_auth and the branch on its result in both run()s; a
\* navigation error of the probe leaves run() as an exception
VerifyAuth ==
    /\ pc = "probe"
    /\ Nav("probe")
    /\ \/ /\ pc' = "crashed"
          /\ UNCHANGED <<session, seeds, fetched, kept, listing, page_num, page_url>>
       \/ \E landed \in {probe_url, LOGIN_URL} :
            \* "WTA redirects unauthenticated requests to /login"
            /\ context = "bare" => landed = LOGIN_URL
            /\ page_url' = landed
            /\ probe_landed' = landed
            /\ IF verify_auth(landed)
               THEN /\ valid' = "valid"
                    /\ context' = context
                    /\ IF prog = "wta" /\ trail_url = NoURL
                       THEN /\ urls' = <<>>
                            /\ seen' = seen
                            /\ current_url' = WTA_HIKE_LIST_URL
                            /\ page_num' = 0
                            /\ IF ListLoopTest(WTA_HIKE_LIST_URL, 0, max_pages)
                               THEN pc' = "list_goto" /\ UNCHANGED <<seeds, fetched, kept>>
                               ELSE pc' = "seed_loop" /\ SetSeeds(<<>>)
                       ELSE /\ IF prog = "wta"
                               THEN SetSeeds(<<trail_url>>)
                               ELSE UNCHANGED <<seeds, fetched, kept>>
                            /\ UNCHANGED <<listing, page_num>>
                            /\ pc' = "seed_loop"
               ELSE /\ valid' = "expired"
                    /\ context' = "closed"
                    /\ pc' = "expired"
                    /\ UNCHANGED <<seeds, fetched, kept, listing, page_num>>
    /\ UNCHANGED <<inputs, cutoff, i, all_rows, errors, locals, files,
                   waits, long_delays, extra_pause, page_base, saw_old, served>>

(***************************************************************************)
(* wta.get_hike_urls: the listing crawl.  An exception here is not inside  *)
(* any try block of run().                                                 *)
(***************************************************************************)
Sleep == paced' = TRUE

\* page.goto(current_url) at line 139
ListGoto ==
    /\ pc = "list_goto"
    /\ Nav("listing")
    /\ \/ pc' = "list_delay" /\ page_url' = current_url
       \/ pc' = "crashed" /\ page_url' = page_url
    /\ UNCHANGED <<inputs, session, cutoff, aggregate, listing, page_num, locals, files,
                   fetched, waits, long_delays,
                   extra_pause, page_base, saw_old, kept, served>>

\* polite_delay() at line 140
ListDelay ==
    /\ pc = "list_delay"
    /\ Sleep
    /\ pc' = "list_extract"
    /\ UNCHANGED <<inputs, session, cutoff, aggregate, listing, page_num, page_url, locals,
                   files, navs, fetched, waits, long_delays,
                   extra_pause, page_base, saw_old, kept, served>>

\* lines 142-162 and the loop test of line 137; the return of line 165
ListExtract ==
    /\ pc = "list_extract"
    /\ \/ /\ pc' = "crashed"
          /\ UNCHANGED <<seeds, fetched, kept, listing, page_num, served>>
       \/ \E links \in SeqsUpTo(ListHrefs, Min(MaxPerPage, MaxItemsServed - items_served)),
             present \in BOOLEAN, next_href \in NextHrefs :
            /\ present /\ next_href # NoURL => pages_served < MaxPagesServed
            /\ ~present => next_href = NoURL
            /\ urls' = AddLinks(urls, links)
            /\ seen' = seen \o links
            /\ current_url' = NextListUrl(present, next_href)
            /\ page_num' = page_num + 1
            /\ items_served' = items_served + Len(links)
            /\ pages_served' = IF current_url' # NoURL THEN pages_served + 1 ELSE pages_served
            /\ IF ListLoopTest(current_url', page_num', max_pages)
               THEN pc' = "list_goto" /\ UNCHANGED <<seeds, fetched, kept>>
               ELSE pc' = "seed_loop" /\ SetSeeds(urls')
    /\ UNCHANGED <<inputs, session, cutoff, i, all_rows, errors, page_url, locals, files,
                   navs, waits, long_delays, extra_pause, page_base, saw_old, paced>>

(***************************************************************************)
(* The seed loop of both run()s                                            *)
(***************************************************************************)
\* for i, url in enumerate(...): next iteration, or context.close() after the loop
SeedLoop ==
    /\ pc = "seed_loop"
    /\ IF i <= Len(seeds)
       THEN /\ pc' = IF prog = "wta" THEN "detail_goto" ELSE "trail_goto"
            /\ context' = context
       ELSE /\ pc' = "write"
            /\ context' = "closed"
    /\ UNCHANGED <<inputs, valid, probe_landed, cutoff, aggregate, listing, page_num,
                   page_url, locals, files, history, served>>

\* variants: the exception leaves run(); the exception is swallowed unreported
Caught_uncaught(exc) ==
    /\ pc' = "crashed"
    /\ UNCHANGED <<aggregate>>

Caught_silent(exc) ==
    /\ i' = i + 1
    /\ pc' = "seed_loop"
    /\ UNCHANGED <<seeds, all_rows, errors>>

\* variant: the rows kept before the exception are handed to the aggregate
Caught_salvage(exc) ==
    /\ errors' = Append(errors, [url |-> seeds[i], exc |-> exc, seed |-> i, page |-> page_num])
    /\ all_rows' = all_rows \o rows
    /\ i' = i + 1
    /\ pc' = "seed_loop"
    /\ UNCHANGED <<seeds>>

\* except Exception as exc: print(f"  ERROR scraping {url}: {exc}")
Caught(exc) ==
    /\ errors' = Append(errors, [url |-> seeds[i], exc |-> exc, seed |-> i, page |-> page_num])
    /\ i' = i + 1
    /\ pc' = "seed_loop"
    /\ UNCHANGED <<seeds, all_rows>>

(***************************************************************************)
(* wta.scrape_hike_detail inside the try block of wta.run                  *)
(***************************************************************************)
\* page.goto(url) at line 35
DetailGoto ==
    /\ pc = "detail_goto"
    /\ Nav("detail")
    /\ Fetch(i)
    /\ \/ /\ pc' = "detail_delay" /\ page_url' = seeds[i]
          /\ UNCHANGED <<aggregate>>
       \/ Caught("navigation") /\ page_url' = page_url
    /\ UNCHANGED <<inputs, session, cutoff, listing, page_num, locals, files,
                   waits, long_delays, extra_pause, page_base, saw_old, kept, served>>

\* polite_delay() at line 36
DetailDelay ==
    /\ pc = "detail_delay"
    /\ Sleep
    /\ pc' = "detail_extract"
    /\ UNCHANGED <<inputs, session, cutoff, aggregate, listing, page_num, page_url, locals,
                   files, navs, fetched, waits, long_delays,
                   extra_pause, page_base, saw_old, kept, served>>

\* lines 38-123 and rows.append(row) of wta.run
DetailExtract ==
    /\ pc = "detail_extract"
    /\ \/ \E heading \in DetailPages :
            /\ all_rows' = Append(all_rows, HikeRow(seeds[i], heading, scraped_at))
            /\ i' = i + 1
            /\ pc' = "seed_loop"
            /\ UNCHANGED <<seeds, errors>>
       \/ Caught("extraction")
    /\ UNCHANGED <<inputs, session, cutoff, listing, page_num, page_url, locals, files,
                   history, served>>


(***************************************************************************)
(* wta_reports.scrape_reports_for_trail inside the try block of            *)
(* wta_reports.run                                                         *)
(***************************************************************************)
\* variant: the seed's rows are put in front of the aggregate
ReturnRows_prepend ==
    /\ all_rows' = rows \o all_rows
    /\ i' = i + 1
    /\ pc' = "seed_loop"
    /\ UNCHANGED <<seeds, errors>>

\* return rows; all_rows.extend(rows)
ReturnRows ==
    /\ all_rows' = all_rows \o rows
    /\ i' = i + 1
    /\ pc' = "seed_loop"
    /\ UNCHANGED <<seeds, errors>>

\* href attribute of nav.pagination li.next a
ReportNextHrefs ==
    { NoURL,
      Href(<<"go-hiking", "hikes", "mt-si", "@@related_tripreport_listing?b_start">>),
      URL(<<"go-hiking", "hikes", "mt-si", "@@related_tripreport_listing?b_start">>) }

\* page.goto(trail_url) at line 78
TrailGoto ==
    /\ pc = "trail_goto"
    /\ Nav("trail")
    /\ Fetch(i)
    /\ \/ /\ pc' = "first_delay" /\ page_url' = seeds[i]
          /\ UNCHANGED <<aggregate>>
       \/ Caught("navigation") /\ page_url' = page_url
    /\ UNCHANGED <<inputs, session, cutoff, listing, page_num, locals, files,
                   waits, long_delays, extra_pause, page_base, saw_old, kept, served>>

\* polite_delay() at line 79, rows = [] and page_num = 0, entry of the loops
FirstDelay ==
    /\ pc = "first_delay"
    /\ Sleep
    /\ rows' = <<>>
    /\ page_num' = 0
    /\ attempt' = 0
    /\ loaded' = FALSE
    /\ waits' = 0
    /\ long_delays' = 0
    /\ extra_pause' = extra_pause
    /\ pc' = "wait"
    /\ UNCHANGED <<inputs, session, cutoff, aggregate, listing, page_url, past_cutoff,
                   items, idx, files, navs, fetched, page_base, saw_old, kept, served>>

\* past_cutoff = False at line 108, and the variant that keeps the flag
PastCutoffReset_kept(prev) == prev
PastCutoffReset(prev) == FALSE

\* variant: a page that never loads raises instead of breaking
NextAttempt_raises ==
    IF attempt + 1 < WaitAttempts
    THEN /\ attempt' = attempt + 1
         /\ loaded' = FALSE
         /\ pc' = "wait"
         /\ UNCHANGED <<aggregate>>
    ELSE /\ attempt' = attempt
         /\ loaded' = FALSE
         /\ Caught("timeout")

\* the wait loop's step to its next attempt, or out of the loop not loaded
\* (lines 87, 97-99)
NextAttempt ==
    IF attempt + 1 < WaitAttempts
    THEN /\ attempt' = attempt + 1
         /\ loaded' = FALSE
         /\ pc' = "wait"
         /\ UNCHANGED <<aggregate>>
    ELSE /\ attempt' = attempt
         /\ loaded' = FALSE
         /\ ReturnRows

\* the #trip-reports .item elements the site can have on the page
PageElements ==
    IF site = "deep"
    THEN { <<DeepElement>> }
    ELSE SeqsUpTo(ReportElements, Min(MaxPerPage, MaxItemsServed - items_served))

\* the site has a further report page to link to
MorePages == IF site = "deep" THEN page_num < DeepPages ELSE pages_served < MaxPagesServed

\* page.wait_for_selector at line 89; on success the element count of
\* lines 101-104 and the entry of the element loop
Wait ==
    /\ pc = "wait"
    /\ waits' = waits + 1
    /\ \/ \E els \in PageElements :
            /\ items' = els
            /\ items_served' = IF site = "deep" THEN items_served ELSE items_served + Len(els)
            /\ idx' = 0
            /\ past_cutoff' = PastCutoffReset(past_cutoff)
            /\ page_base' = Len(rows)
            /\ attempt' = attempt
            /\ loaded' = TRUE
            /\ IF Len(els) = 0
               THEN ReturnRows
               ELSE pc' = "items" /\ UNCHANGED <<aggregate>>
       \/ /\ IF attempt = 0
             THEN pc' = "retry_delay" /\ UNCHANGED <<attempt, loaded, aggregate>>
             ELSE NextAttempt
          /\ UNCHANGED <<items, idx, past_cutoff, page_base, items_served>>
    /\ UNCHANGED <<inputs, session, cutoff, listing, page_num, page_url, rows, files,
                   navs, fetched, long_delays,
                   extra_pause, saw_old, kept, paced, pages_served>>

\* polite_delay(3.0, 6.0) at line 95
RetryDelay ==
    /\ pc = "retry_delay"
    /\ Sleep
    /\ long_delays' = long_delays + 1
    /\ extra_pause' = extra_pause
    /\ NextAttempt
    /\ UNCHANGED <<inputs, session, cutoff, listing, page_num, page_url, rows, past_cutoff,
                   items, idx, files, navs, fetched, waits, page_base, saw_old, kept,
                   served>>

\* one iteration of the element loop, lines 110-150; a failing DOM read
\* raises out of scrape_reports_for_trail
Item ==
    /\ pc = "items"
    /\ idx < Len(items)
    /\ \/ /\ Caught("extraction")
          /\ UNCHANGED <<rows, past_cutoff, idx, saw_old, kept>>
       \/ /\ idx' = idx + 1
          /\ IF Dropped(items[idx + 1], cutoff)
             THEN /\ past_cutoff' = TRUE
                  /\ saw_old' = saw_old \cup {i}
                  /\ UNCHANGED <<rows, kept>>
             ELSE /\ rows' = Append(rows, ReportRow(seeds[i], items[idx + 1], scraped_at))
                  /\ kept' = [kept EXCEPT ![i] =
                                 Append(@, [page |-> page_num, item |-> idx + 1,
                                            row |-> ReportRow(seeds[i], items[idx + 1],
                                                              scraped_at)])]
                  /\ UNCHANGED <<past_cutoff, saw_old>>
          /\ pc' = "items"
          /\ UNCHANGED <<aggregate>>
    /\ UNCHANGED <<inputs, session, cutoff, listing, page_num, page_url, attempt, loaded,
                   items, files, navs, fetched, waits, long_delays,
                   extra_pause, page_base, paced,
                   served>>

\* after the element loop: lines 152-166
PageEnd ==
    /\ pc = "items"
    /\ idx = Len(items)
    /\ \/ /\ Caught("extraction")
          /\ UNCHANGED <<page_num, current_url, pages_served>>
       \/ \E present \in BOOLEAN, next_href \in ReportNextHrefs :
            /\ present /\ next_href # NoURL => MorePages
            /\ ~present => next_href = NoURL
            /\ IF past_cutoff \/ ~present \/ next_href = NoURL
               THEN /\ ReturnRows
                    /\ UNCHANGED <<page_num, current_url, pages_served>>
               ELSE /\ current_url' = FullUrl(next_href)
                    /\ page_num' = page_num + 1
                    /\ pages_served' = IF site = "deep" THEN pages_served
                                                         ELSE pages_served + 1
                    /\ pc' = "pg_delay"
                    /\ UNCHANGED <<aggregate>>
    /\ UNCHANGED <<inputs, session, cutoff, urls, seen, page_url, locals, files, history,
                   items_served>>

\* variant: the pause falls on the page before each multiple of 20
pagination_delay_early(page_num_) == page_num_ > 0 /\ (page_num_ + 1) % 20 = 0

\* utils.pagination_delay: TRUE when the extra uniform(5.0, 10.0) pause is
\* added to the base uniform(1.0, 2.5) delay
pagination_delay(page_num_) == page_num_ > 0 /\ page_num_ % 20 = 0

\* pagination_delay(page_num) at line 167
PgDelay ==
    /\ pc = "pg_delay"
    /\ Sleep
    /\ extra_pause' = pagination_delay(page_num)
    /\ pc' = "next_goto"
    /\ UNCHANGED <<inputs, session, cutoff, aggregate, listing, page_num, page_url, locals,
                   files, navs, fetched, waits, long_delays, page_base, saw_old, kept, served>>

\* page.goto(next_full) at line 168 and re-entry of the wait loop
NextGoto ==
    /\ pc = "next_goto"
    /\ Nav("report")
    /\ Fetch(i)
    /\ \/ /\ pc' = "wait" /\ page_url' = current_url
          /\ attempt' = 0
          /\ loaded' = FALSE
          /\ waits' = 0
          /\ long_delays' = 0
          /\ extra_pause' = extra_pause
          /\ UNCHANGED <<aggregate>>
       \/ /\ Caught("navigation") /\ page_url' = page_url
          /\ UNCHANGED <<attempt, loaded, waits, long_delays, extra_pause>>
    /\ UNCHANGED <<inputs, session, cutoff, listing, page_num, rows, past_cutoff, items,
                   idx, files, page_base, saw_old, kept, served>>

(***************************************************************************)
(* Output                                                                  *)
(***************************************************************************)
\* variant: the file is opened whatever the rows
write_csv_always(file, rows_) == [exists |-> TRUE, rows |-> rows_]

\* utils.write_csv: the file after the call
write_csv(file, rows_) ==
    IF rows_ = <<>> THEN file ELSE [exists |-> TRUE, rows |-> rows_]

\* csv_path(prefix) creates data/raw; write_csv(out_path, rows)
WriteOutput ==
    /\ pc = "write"
    /\ raw_dir' = TRUE
    /\ csv_file' = write_csv(csv_file, all_rows)
    /\ notice' = (all_rows = <<>>)
    /\ pc' = "done"
    /\ UNCHANGED <<inputs, session, cutoff, aggregate, listing, page_num, page_url, locals,
                   history, served>>

(***************************************************************************)
(* Cancellation or KeyboardInterrupt while the run is suspended in a       *)
(* navigation, a content wait, a DOM read or a sleep: a BaseException,     *)
(* which no "except Exception" catches                                     *)
(***************************************************************************)
Suspended ==
    { "probe", "list_goto", "list_delay", "list_extract", "detail_goto", "detail_delay",
      "detail_extract", "trail_goto", "first_delay", "wait", "retry_delay", "items",
      "pg_delay", "next_goto" }

Interrupt ==
    /\ pc \in Suspended
    /\ pc' = "interrupted"
    /\ UNCHANGED <<inputs, session, cutoff, aggregate, listing, page_num, page_url, locals,
                   files, history, served>>

Next ==
    \/ ReportsStart
    \/ WtaStart
    \/ NewContext
    \/ VerifyAuth
    \/ ListGoto
    \/ ListDelay
    \/ ListExtract
    \/ SeedLoop
    \/ DetailGoto
    \/ DetailDelay
    \/ DetailExtract
    \/ TrailGoto
    \/ FirstDelay
    \/ Wait
    \/ RetryDelay
    \/ Item
    \/ PageEnd
    \/ PgDelay
    \/ NextGoto
    \/ WriteOutput
    \/ Interrupt

Spec == Init /\ [][Next]_vars


(***************************************************************************)
(* Properties                                                              *)
(***************************************************************************)
AcceptedFormats == {"B", "b.", "b", "iso"}

\* a date text that parses cleanly: exactly one date in an accepted format
CleanDate(raw) == Len(raw) = 1 /\ raw[1].fmt \in AcceptedFormats

\* a cleanly parsed date strictly earlier than the run's cutoff instant
Older(raw) == CleanDate(raw) /\ raw[1].day * TicksPerDay < cutoff

NominalDate(el) == _parse_report_date(el.title)

IsPrefix(a, b) == Len(a) <= Len(b) /\ SubSeq(b, 1, Len(a)) = a

EntityNavs == navs["listing"] + navs["detail"] + navs["trail"] + navs["report"]

SeedErrors(s) == { e \in 1..Len(errors) : errors[e].seed = s }

\* C1: in both runs, once the session probe has landed on the login page,
\* no listing, trail-detail or trip-report page is ever navigated to and
\* nothing is written: no output file, no notice, no data directory.
C1_ExpiredSessionNoTraversal ==
    probe_landed = LOGIN_URL =>
        /\ EntityNavs = 0
        /\ csv_file = NoFile
        /\ ~raw_dir /\ ~notice
        /\ all_rows = <<>>

C1_Witness ==
    /\ probe_landed = LOGIN_URL
    /\ pc = "expired"
    /\ navs["probe"] = 1
    /\ prog = "wta_reports" /\ Len(seeds) = 2

\* C2: in every seed traversal, of the hike listing crawl and of the
\* trip-report crawl, the pages fetched never exceed the configured maximum
\* page count.
C2_PageCap ==
    /\ navs["listing"] <= max_pages
    /\ \A s \in 1..Len(fetched) : fetched[s] <= max_pages

\* the dates of the elements of els that the gate must keep, in order
RECURSIVE KeptDates(_)
KeptDates(els) ==
    IF els = <<>> THEN <<>>
    ELSE IF Older(NominalDate(Head(els)))
         THEN KeptDates(Tail(els))
         ELSE <<NominalDate(Head(els))>> \o KeptDates(Tail(els))

NoOlderRow(rs) == \A k \in 1..Len(rs) : ~Older(rs[k].report_date)

\* C3: in the trip-report crawl no element whose date parses cleanly and is
\* strictly earlier than the cutoff is ever appended, to rows or to the
\* aggregated output; and of the elements of the current page processed so
\* far, exactly the others have been appended, in page order, whatever
\* their position relative to an older element.
C3_CutoffGate ==
    prog = "wta_reports" =>
        /\ NoOlderRow(all_rows)
        /\ NoOlderRow(rows)
        /\ pc = "items" =>
              /\ page_base <= Len(rows)
              /\ [k \in 1..(Len(rows) - page_base) |-> rows[page_base + k].report_date]
                     = KeptDates(SubSeq(items, 1, idx))

C3_Witness ==
    /\ pc = "items"
    /\ Len(items) = 2 /\ idx = 2
    /\ Older(NominalDate(items[1]))
    /\ ~Older(NominalDate(items[2]))
    /\ Len(rows) = page_base + 1

\* C4: once an element before the cutoff has been found on a page of a
\* seed, no further page of that seed is fetched; the past-cutoff flag of a
\* page is set only by an older element of that very page, so a later seed
\* is not stopped by an earlier seed's flag, and every seed's traversal
\* starts by navigating to its own trail URL.
C4_SequenceExhausted ==
    /\ [][\A s \in saw_old : fetched'[s] = fetched[s]]_vars
    /\ [](pc = "items" /\ past_cutoff => \E k \in 1..idx : Older(NominalDate(items[k])))
    /\ [][pc = "trail_goto" /\ pc' = "first_delay" => page_url' = seeds[i]]_vars
    /\ [][pc = "first_delay" /\ pc' = "wait" => page_num' = 0]_vars

C4_Witness ==
    /\ 1 \in saw_old
    /\ i = 2
    /\ Len(fetched) = 2 /\ fetched[1] = 1 /\ fetched[2] = 2
    /\ pc = "wait"

\* C5: an element whose date text matches no accepted format is appended to
\* rows by the very step that evaluates it, without touching the
\* past-cutoff flag and without leaving the element loop; and every such
\* row of a seed whose traversal returned is in the aggregated output of a
\* finished run.
C5_FailOpen ==
    /\ [][ ( /\ pc = "items"
             /\ idx' = idx + 1
             /\ ~CleanDate(NominalDate(items[idx + 1])) )
           => /\ Len(rows') = Len(rows) + 1
              /\ SubSeq(rows', 1, Len(rows)) = rows
              /\ rows'[Len(rows')].report_date = NominalDate(items[idx + 1])
              /\ past_cutoff' = past_cutoff
              /\ pc' = "items" ]_vars
    /\ [](pc = "done" /\ prog = "wta_reports" =>
            \A s \in 1..Len(seeds) :
                SeedErrors(s) = {} =>
                    \A k \in 1..Len(kept[s]) :
                        ~CleanDate(kept[s][k].row.report_date) =>
                            \E r \in 1..Len(all_rows) : all_rows[r] = kept[s][k].row)

C5_Witness ==
    /\ pc = "done"
    /\ prog = "wta_reports"
    /\ errors = <<>>
    /\ \E r \in 1..Len(csv_file.rows) :
           /\ ~CleanDate(csv_file.rows[r].report_date)
           /\ Len(csv_file.rows[r].report_date) = 1
           /\ csv_file.rows[r].report_date[1].day * TicksPerDay < cutoff

\* C6: on every page the content marker is waited for at most twice; a
\* second wait is preceded by exactly one longer delay; and a second
\* timeout leaves the traversal by returning, with no error reported.
C6_WaitTwice ==
    /\ [](/\ waits <= 2
          /\ long_delays <= 1
          /\ waits = 2 => long_delays = 1)
    /\ [][pc = "wait" /\ attempt = 1 /\ ~loaded' /\ pc' # "interrupted"
            => /\ pc' = "seed_loop"
               /\ errors' = errors
               /\ waits' = 2 ]_vars

C6_Witness ==
    /\ pc = "seed_loop"
    /\ ~loaded
    /\ waits = 2 /\ long_delays = 1
    /\ errors = <<>>
    /\ page_num = 0

\* C7: when the wait loop ends without the marker, the seed's traversal
\* returns: the output grows by exactly the rows kept on the seed's earlier
\* pages (none on the first page), no error is reported, and the seed loop
\* goes on with the next seed.
C7_ContentNotReady ==
    /\ [][ ( /\ pc \in {"wait", "retry_delay"}
             /\ ~loaded'
             /\ pc' \notin {"wait", "retry_delay", "interrupted"} )
           => /\ pc' = "seed_loop"
              /\ rows = [k \in 1..Len(kept[i]) |-> kept[i][k].row]
              /\ all_rows' = all_rows \o rows
              /\ page_num = 0 => all_rows' = all_rows
              /\ errors' = errors
              /\ i' = i + 1 ]_vars
    /\ [][pc = "seed_loop" /\ i <= Len(seeds) => pc' \in {"trail_goto", "detail_goto"}]_vars

C7_Witness ==
    /\ pc = "trail_goto"
    /\ i = 2
    /\ ~loaded
    /\ waits = 2
    /\ page_num = 1
    /\ errors = <<>>
    /\ Len(all_rows) = 1

\* C8: in both runs an exception raised while a seed is processed is
\* reported once at the seed boundary and the loop moves to the next seed;
\* the aggregated rows are only ever extended; no exception leaves run()
\* once a seed's page has been navigated to; a finished run has attempted
\* every seed in order and has written exactly the aggregated rows.
C8_SeedErrorsContained ==
    /\ [](pc = "crashed" => navs["detail"] + navs["trail"] + navs["report"] = 0)
    /\ [][Len(errors') # Len(errors)
            => /\ errors' = Append(errors, errors'[Len(errors')])
               /\ errors'[Len(errors')].url = seeds[i]
               /\ all_rows' = all_rows
               /\ i' = i + 1
               /\ pc' = "seed_loop" ]_vars
    /\ [][IsPrefix(all_rows, all_rows') /\ i' \in {i, i + 1}]_vars
    /\ [](pc = "done" =>
            /\ i = Len(seeds) + 1
            /\ \A s \in 1..Len(seeds) : fetched[s] >= 1
            /\ all_rows # <<>> => csv_file = [exists |-> TRUE, rows |-> all_rows])

C8_Witness ==
    /\ pc = "done"
    /\ Len(seeds) = 2
    /\ Len(errors) = 1 /\ errors[1].seed = 2
    /\ Len(all_rows) >= 1
    /\ csv_file.rows = all_rows

\* C9: in the trip-report crawl, when field extraction raises on one page of
\* a seed, the rows kept on the seed's other pages still reach the output.
C9_ExtractionErrorKeepsRows ==
    pc = "done" /\ prog = "wta_reports" =>
        \A e \in 1..Len(errors) :
            errors[e].exc = "extraction" =>
                \A k \in 1..Len(kept[errors[e].seed]) :
                    kept[errors[e].seed][k].page # errors[e].page =>
                        \E r \in 1..Len(all_rows) : all_rows[r] = kept[errors[e].seed][k].row

\* C10: in the trail-detail crawl every seed processed so far has produced
\* exactly one output row or exactly one reported error, never both and
\* never neither; a finished run has processed every seed.
C10_SeedsAccounted ==
    prog = "wta" =>
        /\ Len(all_rows) + Len(errors) = i - 1
        /\ \A s \in 1..(i - 1) :
               Cardinality({ r \in 1..Len(all_rows) : all_rows[r].wta_url = seeds[s] })
                   + Cardinality(SeedErrors(s)) = 1
        /\ pc = "done" => i - 1 = Len(seeds)

C10_Witness ==
    /\ prog = "wta"
    /\ pc = "done"
    /\ Len(seeds) = 2
    /\ Len(all_rows) = 1
    /\ Len(errors) = 1


\* C11: the session probe navigation happens at most once in a run, no
\* listing, trail-detail or trip-report page is navigated to before the
\* probe has completed with a valid verdict, and a run that reaches its
\* seed loop, its output or its expired exit has probed exactly once.
C11_ProbeOnceFirst ==
    /\ navs["probe"] <= 1
    /\ EntityNavs > 0 =>
          /\ navs["probe"] = 1
          /\ probe_landed # NoURL
          /\ valid = "valid"
    /\ pc \in {"seed_loop", "list_goto", "write", "done", "expired"} => navs["probe"] = 1

C11_Witness ==
    /\ pc = "done"
    /\ navs["probe"] = 1
    /\ navs["listing"] = 2
    /\ navs["detail"] = 1


\* C12: a pacing sleep (polite_delay or pagination_delay) precedes every
\* page navigation: no listing, trail-detail or trip-report page is
\* navigated to unless a sleep has been taken since the run began, and no
\* navigation follows another navigation without a sleep in between.
C12_PacedBeforeEveryNavigation ==
    [][ /\ EntityNavs' > EntityNavs => paced
        /\ (navs' # navs /\ navs["probe"] + EntityNavs > 0) => paced ]_vars


\* C13: when a cancellation or keyboard interrupt arrives while seed i is
\* being navigated to, waited on, read or slept for, seed i is marked
\* failed and the records aggregated from the seeds before i are not lost:
\* they make up the run's written result.
C13_InterruptKeepsEarlierRecords ==
    (pc = "interrupted" /\ all_rows # <<>>) =>
        /\ SeedErrors(i) # {}
        /\ csv_file = [exists |-> TRUE, rows |-> all_rows]


\* the rows seed s handed to the aggregate: all it kept, once its traversal
\* has returned without an error
Contribution(s) ==
    IF s < i /\ SeedErrors(s) = {}
    THEN [k \in 1..Len(kept[s]) |-> kept[s][k].row]
    ELSE <<>>

RECURSIVE Flatten(_)
Flatten(s) == IF s = 0 THEN <<>> ELSE Flatten(s - 1) \o Contribution(s)

SeedIndexOf(u) == CHOOSE s \in 1..Len(seeds) : seeds[s] = u

\* C14: the aggregated output is in seed order, and within a seed in page
\* order and then item order: the trip-report output is the concatenation,
\* by ascending seed index, of the rows each returned seed kept, each seed's
\* rows ascending by (page index, item index); the trail-detail output
\* lists its records by ascending index of their URL in the seed list.
C14_SeedOrderPreserved ==
    /\ prog = "wta_reports" =>
          /\ all_rows = Flatten(Len(seeds))
          /\ \A s \in 1..Len(kept) :
                \A k, l \in 1..Len(kept[s]) :
                    k < l => \/ kept[s][k].page < kept[s][l].page
                             \/ /\ kept[s][k].page = kept[s][l].page
                                /\ kept[s][k].item < kept[s][l].item
    /\ prog = "wta" =>
          \A r1, r2 \in 1..Len(all_rows) :
              r1 < r2 => SeedIndexOf(all_rows[r1].wta_url) < SeedIndexOf(all_rows[r2].wta_url)

C14_Witness ==
    /\ pc = "done"
    /\ prog = "wta_reports"
    /\ Len(seeds) >= 2
    /\ Len(Contribution(1)) = 1
    /\ Len(Contribution(2)) = 1
    /\ Contribution(1) # Contribution(2)
    /\ csv_file.rows = Contribution(1) \o Contribution(2)


\* a record without its time stamp
Unstamped(row) == [row EXCEPT !.scraped_at = 0]

\* the element loop of a second run over the same elements of the same
\* trail, started at instant now_ with window days_
RECURSIVE ReplayPage(_, _, _, _)
ReplayPage(url, els, now_, days_) ==
    IF els = <<>> THEN <<>>
    ELSE IF Dropped(Head(els), _cutoff_date(now_, days_))
         THEN ReplayPage(url, Tail(els), now_, days_)
         ELSE <<Unstamped(ReportRow(url, Head(els), now_))>>
                  \o ReplayPage(url, Tail(els), now_, days_)

ReplayStops(els, now_, days_) ==
    \E k \in 1..Len(els) : Dropped(els[k], _cutoff_date(now_, days_))

\* what this run has done with the elements of the current page so far is
\* what the second run does with them
SameAsRun(now_, days_) ==
    /\ page_base <= Len(rows)
    /\ [k \in 1..(Len(rows) - page_base) |-> Unstamped(rows[page_base + k])]
           = ReplayPage(seeds[i], SubSeq(items, 1, idx), now_, days_)
    /\ past_cutoff = ReplayStops(SubSeq(items, 1, idx), now_, days_)

StartInstants == {NowDay * TicksPerDay, NowDay * TicksPerDay + 1}

ReportKeys ==
    { "trail_url", "report_date", "author", "conditions", "snow_level", "text_summary",
      "source", "scraped_at" }

HikeKeys ==
    { "trail_name", "location", "distance_miles", "elevation_gain_ft", "highest_point_ft",
      "difficulty", "trail_type", "required_pass", "dogs_allowed", "kid_friendly",
      "season_window", "highlight", "wta_url", "source", "scraped_at" }

\* C16: every record of the aggregated output of either run has the full
\* key set of its kind, a source URL and a scraped_at stamp, and shows a
\* content field the page did not provide as null, not as the empty string
\* (the report blocks author, conditions, text and the snow level, which is
\* never extracted).
C16_StableSchemaNullAbsent ==
    \A r \in 1..Len(all_rows) :
        /\ prog = "wta" =>
              /\ DOMAIN all_rows[r] = HikeKeys
              /\ all_rows[r].wta_url # NoURL
        /\ prog = "wta_reports" =>
              /\ DOMAIN all_rows[r] = ReportKeys
              /\ all_rows[r].trail_url # NoURL
              /\ all_rows[r].author # ""
              /\ all_rows[r].conditions # ""
              /\ all_rows[r].text_summary # ""
              /\ all_rows[r].snow_level # ""
        /\ all_rows[r].scraped_at = now


\* C17 as stated: a run that ends with an empty aggregated result has
\* written no output file and created nothing on the file system (the data
\* directory included); all it has done is print the notice.
C17_EmptyResultNoEffect ==
    (pc = "done" /\ all_rows = <<>>) =>
        /\ csv_file = NoFile
        /\ ~raw_dir
        /\ notice


\* C17: while the aggregated result is empty no output file exists; a run
\* that reaches its output step with an empty result opens no file and
\* prints the notice, its one effect on the file system being the data
\* directory that csv_path creates.
C17_EmptyResultNoFile ==
    /\ all_rows = <<>> => csv_file = NoFile
    /\ (pc = "done" /\ all_rows = <<>>) => (notice /\ raw_dir)

C17_Witness ==
    /\ pc = "done"
    /\ all_rows = <<>>
    /\ Len(seeds) >= 1
    /\ EntityNavs >= 1
    /\ csv_file = NoFile
    /\ notice
    /\ raw_dir


\* the default lookback window as the module docstring of wta_reports gives it
DocumentedDefaultDays == 60

\* C18: a trip-report run started without --days (days is then the
\* argparse default) has its cutoff DocumentedDefaultDays days before the
\* run's start instant.
C18_DefaultWindowAsDocumented ==
    (prog = "wta_reports" /\ days = DEFAULT_DAYS /\ pc # "start") =>
        cutoff = now - DocumentedDefaultDays * TicksPerDay


\* C19: within a traversal the page index never decreases and moves by one
\* (it restarts at 0 when a new trail's traversal begins), the pages fetched
\* are one more than the index of the page being read, and the traversal
\* terminates on a site whose every page offers a next link and no old
\* item: the index of a page about to be fetched stays below the maximum
\* page count, the one measure that bounds such a traversal.
C19_IndexStepsAndTerminates ==
    /\ [][ \/ page_num' = page_num
           \/ page_num' = page_num + 1
           \/ (pc = "first_delay" /\ page_num' = 0) ]_vars
    /\ []((prog = "wta_reports" /\ pc \in {"wait", "retry_delay", "items"}) =>
              fetched[i] = page_num + 1)
    /\ []((prog = "wta" /\ pc \in {"list_delay", "list_extract"}) =>
              navs["listing"] = page_num + 1)
    /\ [](pc \in {"list_goto", "pg_delay", "next_goto"} => page_num < max_pages)


\* C20: in the trail-detail run a failed navigation to a hike listing page
\* does not end the run: with hike URLs already collected, the step out of
\* the listing navigation never leaves the run crashed, so the collected
\* URLs are still scraped and written.
C20_ListingFailureNotFatal ==
    [][(pc = "list_goto" /\ urls # <<>>) => pc' # "crashed"]_vars


\* C21: in the trip-report crawl pagination_delay is called before each
\* next-page navigation with page_num = n for the n-th next-page navigation
\* of the seed (n = 1, 2, 3, ..., counted afresh for every seed: n is the
\* number of pages already fetched for that seed), and the call adds the
\* extra pause exactly when n is a multiple of 20.
C21_PaginationDelayIndex ==
    /\ [](pc \in {"pg_delay", "next_goto"} => (page_num >= 1 /\ page_num = fetched[i]))
    /\ [](pc = "next_goto" => (extra_pause <=> fetched[i] % 20 = 0))
    /\ [][navs'["report"] # navs["report"] => (pc = "next_goto" /\ paced)]_vars

C21_Witness ==
    /\ pc = "next_goto"
    /\ i = 2
    /\ fetched[1] >= 2
    /\ page_num = 20
    /\ extra_pause


\* position in seen of the first link that resolves to u
FirstSeen(u) == CHOOSE j \in 1..Len(seen) :
                    /\ FullUrl(seen[j]) = u
                    /\ \A m \in 1..(j - 1) : FullUrl(seen[m]) # u

\* C22: the list get_hike_urls builds and returns has no duplicate, holds
\* only absolute URLs, holds exactly the resolved hrefs of the links read on
\* the listing pages whose href contains /go-hiking/hikes/, and lists them
\* in the order in which each was first seen; the list it returns is the
\* seed list of the run.
C22_HikeUrlsUniqueInOrder ==
    (prog = "wta" /\ trail_url = NoURL) =>
        /\ \A k, l \in 1..Len(urls) : k # l => urls[k] # urls[l]
        /\ \A k \in 1..Len(urls) : urls[k].abs
        /\ { urls[k] : k \in 1..Len(urls) }
               = { FullUrl(seen[j]) : j \in { m \in 1..Len(seen) : IsHikeHref(seen[m]) } }
        /\ \A k, l \in 1..Len(urls) : k < l => FirstSeen(urls[k]) < FirstSeen(urls[l])
        /\ pc \in {"seed_loop", "detail_goto", "detail_delay", "detail_extract", "write",
                   "done"} => seeds = urls

C22_Witness ==
    /\ pc = "seed_loop"
    /\ navs["listing"] = 2
    /\ seen = <<Href(TrailA.path), TrailA>>
    /\ seeds = <<TrailA>>


KeptRows(s) == [k \in 1..Len(kept[s]) |-> kept[s][k].row]

\* number of rows kept by the seeds up to s whose traversal has returned
RECURSIVE FinishedLen(_)
FinishedLen(s) ==
    IF s = 0 THEN 0
    ELSE FinishedLen(s - 1) + (IF s < i /\ SeedErrors(s) = {} THEN Len(kept[s]) ELSE 0)

OnlySeedWithUrl(s) == \A t \in 1..Len(seeds) : seeds[t] = seeds[s] => t = s

\* C23: in the trip-report crawl a seed contributes all or nothing: the
\* step that reports a seed's exception leaves the aggregated output as it
\* was, whatever the seed had kept before; the step that ends a seed
\* without exception appends all rows the seed kept, in order; the output
\* changes on no other step; so the output holds as many rows as the
\* finished seeds kept, and none with the URL of a failed seed (unless
\* another seed has the same URL).
C23_SeedAllOrNothing ==
    /\ [][(prog = "wta_reports" /\ Len(errors') > Len(errors)) => all_rows' = all_rows]_vars
    /\ [][(prog = "wta_reports" /\ i' = i + 1 /\ errors' = errors) =>
              all_rows' = all_rows \o KeptRows(i)]_vars
    /\ [][(prog = "wta_reports" /\ all_rows' # all_rows) =>
              (i' = i + 1 /\ errors' = errors)]_vars
    /\ [](prog = "wta_reports" =>
              /\ Len(all_rows) = FinishedLen(Len(seeds))
              /\ \A e \in 1..Len(errors) :
                    OnlySeedWithUrl(errors[e].seed) =>
                        \A r \in 1..Len(all_rows) : all_rows[r].trail_url # errors[e].url)

C23_Witness ==
    /\ prog = "wta_reports"
    /\ pc = "done"
    /\ Len(seeds) = 2
    /\ Len(errors) = 1
    /\ errors[1].seed = 1 /\ errors[1].page = 1
    /\ Len(kept[1]) = 1
    /\ all_rows = KeptRows(2)
    /\ Len(kept[2]) = 1
    /\ csv_file.rows = all_rows

====
